---- MODULE Spec2Model ----
(***************************************************************************)
(* BudgetBox: the client-side budget store (zustand), the page's sync      *)
(* coordinator (login / sync / pull) and the backend's three endpoints.    *)
(*                                                                         *)
(* A client's store is one record; the store's operations are operators    *)
(* from a store record to a store record, named as in budgetStore.ts.      *)
(* The page's handlers and the server's route handlers are the actions.    *)
(* An async handler is split at its await on fetch: the part before it     *)
(* (the click), the server's handling of the request, and the part after   *)
(* it (one action per outcome).                                            *)
(*                                                                         *)
(* Not state of the model: the page's authError string, which is displayed *)
(* and never read; navigator.onLine, which only disables the login and     *)
(* sync buttons and sets the message (the clicks of the model are the      *)
(* clicks the page accepts); the persisted copy of the store.              *)
(***************************************************************************)
EXTENDS Integers, Sequences, FiniteSets, Bags, TLC

VARIABLES
    store,      \* client -> BudgetState (budgetStore.ts)
    ui,         \* client -> the page's message / loadingSync / loadingFetch
    syncReq,    \* client -> the POST /budget/sync call of syncToServer
    fetchReq,   \* client -> the GET /budget/latest call of fetchLatest
    loginReqs,  \* client -> bag of the POST /auth/login calls of login
    memory,     \* server: BudgetStore.memory, email -> BudgetRecord
    tokenMap,   \* server: token -> email
    now,        \* the clock read by new Date() / Date.now()
    nextId      \* the next value crypto.randomUUID() returns

vars == <<store, ui, syncReq, fetchReq, loginReqs, memory, tokenMap, now, nextId>>

---------------------------------------------------------------------------
(* Bounds of the model *)

\* Timestamped operations (edit, restore, accepted sync, accepted login) are
\* enabled while the clock has not passed MaxClock.
MaxClock == 2
\* addSnapshot is enabled while the clock has not passed MaxClock in the full
\* system, and MaxClockHist in the store-only specification.
MaxClockHist == 25
\* login calls of one client in flight at the same time.
MaxLogins == 1

Fields == {"income", "monthlyBills", "food", "transport", "subscriptions", "miscellaneous"}

Clients == {"c1"}
Values == {0, 1}
\* what a budget field holds in the specification of the derived metrics
Amounts == -2..3
EditFields == {"income", "food"}

---------------------------------------------------------------------------
(* Data *)

\* lastUpdatedAt / lastSyncedAt: undefined, or a timestamp >= 1
Undefined == 0
\* null for the page's message / authError, JSON null for a budget,
\* an absent token, an absent email
Null == "null"
NullBudget == [null |-> TRUE]
NoToken == <<>>
Missing == "undefined"

DEMO_EMAIL == "hire-me@anshumat.org"
DEMO_PASSWORD == "HireMe@2025!"
OtherEmail == "someone@else.org"
EmptyEmail == ""
\* what the user types into the email and password fields
Emails == {DEMO_EMAIL, OtherEmail}
Passwords == {DEMO_PASSWORD}

HistoryLimit == 20

initialBudget ==
    [income |-> 0, monthlyBills |-> 0, food |-> 0, transport |-> 0,
     subscriptions |-> 0, miscellaneous |-> 0]

initialState ==
    [budget |-> initialBudget,
     syncStatus |-> "local-only",
     userEmail |-> "hire-me@anshumat.org",
     authToken |-> NoToken,
     lastUpdatedAt |-> Undefined,
     lastSyncedAt |-> Undefined,
     history |-> <<>>]

initialPage ==
    [message |-> Null, loadingSync |-> FALSE,
     loadingFetch |-> FALSE]

Idle == [stage |-> "idle"]

---------------------------------------------------------------------------
(* The store's operations: BudgetState -> BudgetState *)

\* updateField without the demotion of synced
updateField_keepsSynced(state, field, value, ts) ==
    [state EXCEPT !.budget = [state.budget EXCEPT ![field] = value],
                  !.lastUpdatedAt = ts]

\* updateField that writes the field in place, through to the snapshots that
\* hold the same budget object
updateField_writesThrough(state, field, value, ts) ==
    [state EXCEPT !.budget = [state.budget EXCEPT ![field] = value],
                  !.syncStatus = IF state.syncStatus = "synced"
                                 THEN "sync-pending" ELSE state.syncStatus,
                  !.lastUpdatedAt = ts,
                  !.history = [i \in 1..Len(state.history) |->
                                  IF state.history[i].budget = state.budget
                                  THEN [state.history[i] EXCEPT !.budget[field] = value]
                                  ELSE state.history[i]]]

\* updateField that demotes synced to local-only
updateField_toLocalOnly(state, field, value, ts) ==
    [state EXCEPT !.budget = [state.budget EXCEPT ![field] = value],
                  !.syncStatus = IF state.syncStatus = "synced"
                                 THEN "local-only" ELSE state.syncStatus,
                  !.lastUpdatedAt = ts]

updateField(state, field, value, ts) ==
    [state EXCEPT !.budget = [state.budget EXCEPT ![field] = value],
                  !.syncStatus = IF state.syncStatus = "synced"
                                 THEN "sync-pending" ELSE state.syncStatus,
                  !.lastUpdatedAt = ts]

\* setSyncStatus that does not overwrite a status an edit or a pull has set
setSyncStatus_keepsSynced(state, status) ==
    IF state.syncStatus = "synced" THEN state
    ELSE [state EXCEPT !.syncStatus = status]

setSyncStatus(state, status) ==
    [state EXCEPT !.syncStatus = status]

\* markSynced that stamps nothing
markSynced_noTimestamp(state, timestamp) ==
    [state EXCEPT !.syncStatus = "synced"]

markSynced(state, timestamp) ==
    [state EXCEPT !.syncStatus = "synced", !.lastSyncedAt = timestamp]

\* hydrateFromServer that merges field by field, keeping local non-zero fields
hydrateFromServer_merge(state, budget, syncedAt, ts) ==
    [state EXCEPT !.budget = [income |-> IF @.income # 0 THEN @.income ELSE budget.income,
                              monthlyBills |-> IF @.monthlyBills # 0 THEN @.monthlyBills
                                               ELSE budget.monthlyBills,
                              food |-> IF @.food # 0 THEN @.food ELSE budget.food,
                              transport |-> IF @.transport # 0 THEN @.transport
                                            ELSE budget.transport,
                              subscriptions |-> IF @.subscriptions # 0 THEN @.subscriptions
                                                ELSE budget.subscriptions,
                              miscellaneous |-> IF @.miscellaneous # 0 THEN @.miscellaneous
                                                ELSE budget.miscellaneous],
                  !.syncStatus = "synced",
                  !.lastSyncedAt = IF syncedAt # Undefined THEN syncedAt ELSE ts]

\* hydrateFromServer that stamps nothing
hydrateFromServer_noStamp(state, budget, syncedAt, ts) ==
    [state EXCEPT !.budget = budget,
                  !.syncStatus = "synced"]

hydrateFromServer(state, budget, syncedAt, ts) ==
    [state EXCEPT !.budget = budget,
                  !.syncStatus = "synced",
                  !.lastSyncedAt = IF syncedAt # Undefined THEN syncedAt ELSE ts]

\* setUserEmail that treats a new email as an unsynced change
setUserEmail_resetsStatus(state, email) ==
    [state EXCEPT !.userEmail = email, !.syncStatus = "local-only"]

setUserEmail(state, email) ==
    [state EXCEPT !.userEmail = email]

setAuthToken(state, token) ==
    [state EXCEPT !.authToken = token]

\* Array.prototype.slice(0, n)
slice0(seq, n) ==
    SubSeq(seq, 1, IF Len(seq) < n THEN Len(seq) ELSE n)

\* addSnapshot that truncates one entry too late
addSnapshot_offByOne(state, id, ts) ==
    LET snapshot == [id |-> id, timestamp |-> ts, budget |-> state.budget]
    IN  [state EXCEPT !.history = slice0(<<snapshot>> \o state.history, HistoryLimit + 1)]

addSnapshot(state, id, ts) ==
    LET snapshot == [id |-> id, timestamp |-> ts, budget |-> state.budget]
    IN  [state EXCEPT !.history = slice0(<<snapshot>> \o state.history, HistoryLimit)]

\* Array.prototype.find: the first element with that id, if any
find(history, id) ==
    LET hits == {i \in 1..Len(history) : history[i].id = id}
    IN  IF hits = {} THEN {}
        ELSE {history[CHOOSE i \in hits : \A j \in hits : i <= j]}

\* restoreSnapshot that restores the fields and leaves the status
restoreSnapshot_keepsStatus(state, id, ts) ==
    LET found == find(state.history, id)
    IN  IF found = {} THEN state
        ELSE LET snap == CHOOSE s \in found : TRUE
             IN  [state EXCEPT !.budget = snap.budget,
                               !.lastUpdatedAt = ts]

\* restoreSnapshot that treats a missing id as a reset to unsynced
restoreSnapshot_missingResets(state, id, ts) ==
    LET found == find(state.history, id)
    IN  IF found = {}
        THEN [state EXCEPT !.syncStatus = "local-only", !.lastUpdatedAt = ts]
        ELSE LET snap == CHOOSE s \in found : TRUE
             IN  [state EXCEPT !.budget = snap.budget,
                               !.syncStatus = "local-only",
                               !.lastUpdatedAt = ts]

restoreSnapshot(state, id, ts) ==
    LET found == find(state.history, id)
    IN  IF found = {} THEN state
        ELSE LET snap == CHOOSE s \in found : TRUE
             IN  [state EXCEPT !.budget = snap.budget,
                               !.syncStatus = "local-only",
                               !.lastUpdatedAt = ts]

---------------------------------------------------------------------------
(* lib/budget.ts: the derived metrics *)

\* a / b of two integers, b # 0, kept as the exact fraction
Quotient(a, b) == [num |-> a, den |-> b]
\* q > n / d, for d > 0
GreaterThan(q, n, d) ==
    IF q.den > 0 THEN q.num * d > n * q.den ELSE q.num * d < n * q.den

\* getTotals that divides by 1 when the income is 0
getTotals_zeroIncomeAsOne(budget) ==
    LET expenses == budget.monthlyBills + budget.food + budget.transport
                        + budget.subscriptions + budget.miscellaneous
        burnRate == IF budget.income # 0 THEN Quotient(expenses, budget.income)
                    ELSE Quotient(expenses, 1)
        savings == budget.income - expenses
    IN  [expenses |-> expenses, burnRate |-> burnRate, savings |-> savings,
         monthEndPrediction |-> savings]

getTotals(budget) ==
    LET expenses == budget.monthlyBills + budget.food + budget.transport
                        + budget.subscriptions + budget.miscellaneous
        burnRate == IF budget.income # 0 THEN Quotient(expenses, budget.income)
                    ELSE Quotient(0, 1)
        savings == budget.income - expenses
    IN  [expenses |-> expenses, burnRate |-> burnRate, savings |-> savings,
         monthEndPrediction |-> savings]

FoodWarning == "Food spend is above 40% of income - trim dining/groceries."
SubscriptionsWarning == "Subscriptions exceed 30% of income - cancel unused apps."
OverspendWarning == "Your expenses are higher than income - cut variable costs."
BurnRateWarning == "Burn rate is above 1.0 - you will run out before month-end."

\* getWarnings whose ratio warnings do not ask for a positive income
getWarnings_noIncomeGuard(budget) ==
    LET totals == getTotals(budget)
        push(cond, warning) == IF cond THEN <<warning>> ELSE <<>>
    IN  push(budget.income # 0
                 /\ GreaterThan(Quotient(budget.food, budget.income), 2, 5),
             FoodWarning)
        \o push(budget.income # 0
                    /\ GreaterThan(Quotient(budget.subscriptions, budget.income), 3, 10),
                SubscriptionsWarning)
        \o push(totals.savings < 0, OverspendWarning)
        \o push(GreaterThan(totals.burnRate, 1, 1), BurnRateWarning)

getWarnings(budget) ==
    LET totals == getTotals(budget)
        push(cond, warning) == IF cond THEN <<warning>> ELSE <<>>
    IN  push(budget.income > 0
                 /\ GreaterThan(Quotient(budget.food, budget.income), 2, 5),
             FoodWarning)
        \o push(budget.income > 0
                    /\ GreaterThan(Quotient(budget.subscriptions, budget.income), 3, 10),
                SubscriptionsWarning)
        \o push(totals.savings < 0, OverspendWarning)
        \o push(GreaterThan(totals.burnRate, 1, 1), BurnRateWarning)

---------------------------------------------------------------------------
(* The server's route handlers, as functions of the server's state *)

tokenMapGet(tm, token) ==
    IF token \in DOMAIN tm THEN tm[token] ELSE Missing

\* Buffer.from(`${email}:${Date.now()}`).toString("base64")
makeToken(email, ts) == <<email, ts>>

\* POST /auth/login that checks the password only
postAuthLogin_anyEmail(tm, body, ts) ==
    IF body.password = DEMO_PASSWORD
    THEN LET token == makeToken(body.email, ts)
         IN  [status |-> 200, token |-> token,
              tokenMap |-> [t \in DOMAIN tm \cup {token} |->
                               IF t = token THEN body.email ELSE tm[t]]]
    ELSE [status |-> 401, token |-> NoToken, tokenMap |-> tm]

\* POST /auth/login
postAuthLogin(tm, body, ts) ==
    IF body.email = DEMO_EMAIL /\ body.password = DEMO_PASSWORD
    THEN LET token == makeToken(body.email, ts)
         IN  [status |-> 200, token |-> token,
              tokenMap |-> [t \in DOMAIN tm \cup {token} |->
                               IF t = token THEN body.email ELSE tm[t]]]
    ELSE [status |-> 401, token |-> NoToken, tokenMap |-> tm]

\* BudgetStore.save that keeps the record an email already has
save_keepsFirst(mem, record) ==
    [e \in DOMAIN mem \cup {record.email} |->
        IF e \in DOMAIN mem THEN mem[e] ELSE record]

\* BudgetStore.save that replaces the whole map by the one record
save_dropsOthers(mem, record) ==
    [e \in {record.email} |-> record]

\* BudgetStore.save (in-memory mode)
save(mem, record) ==
    [e \in DOMAIN mem \cup {record.email} |->
        IF e = record.email THEN record ELSE mem[e]]

\* BudgetStore.latest (in-memory mode): the record, or {} for null
latest(mem, email) ==
    IF email \in DOMAIN mem THEN {mem[email]} ELSE {}

\* POST /budget/sync that also rejects a token it has not issued
postBudgetSync_rejectsForged(mem, tm, req, ts) ==
    LET tokenEmail == tokenMapGet(tm, req.token)
        resolvedEmail == IF req.email # Missing THEN req.email ELSE tokenEmail
    IN  IF resolvedEmail = Missing \/ resolvedEmail = EmptyEmail
        THEN [status |-> 400, timestamp |-> Undefined, memory |-> mem]
        ELSE IF \/ req.token # NoToken /\ tokenEmail = Missing
                \/ /\ DOMAIN tm # {}
                   /\ tokenEmail # Missing /\ tokenEmail # EmptyEmail
                   /\ tokenEmail # resolvedEmail
        THEN [status |-> 403, timestamp |-> Undefined, memory |-> mem]
        ELSE IF req.budget = NullBudget
        THEN [status |-> 400, timestamp |-> Undefined, memory |-> mem]
        ELSE [status |-> 200, timestamp |-> ts,
              memory |-> save(mem, [email |-> resolvedEmail,
                                    budget |-> req.budget,
                                    updatedAt |-> ts])]

\* POST /budget/sync that takes the email from the body only
postBudgetSync_noFallback(mem, tm, req, ts) ==
    LET tokenEmail == tokenMapGet(tm, req.token)
        resolvedEmail == req.email
    IN  IF resolvedEmail = Missing \/ resolvedEmail = EmptyEmail
        THEN [status |-> 400, timestamp |-> Undefined, memory |-> mem]
        ELSE IF /\ DOMAIN tm # {}
                /\ tokenEmail # Missing /\ tokenEmail # EmptyEmail
                /\ tokenEmail # resolvedEmail
        THEN [status |-> 403, timestamp |-> Undefined, memory |-> mem]
        ELSE IF req.budget = NullBudget
        THEN [status |-> 400, timestamp |-> Undefined, memory |-> mem]
        ELSE [status |-> 200, timestamp |-> ts,
              memory |-> save(mem, [email |-> resolvedEmail,
                                    budget |-> req.budget,
                                    updatedAt |-> ts])]

\* POST /budget/sync
postBudgetSync(mem, tm, req, ts) ==
    LET tokenEmail == tokenMapGet(tm, req.token)
        resolvedEmail == IF req.email # Missing THEN req.email ELSE tokenEmail
    IN  IF resolvedEmail = Missing \/ resolvedEmail = EmptyEmail
        THEN [status |-> 400, timestamp |-> Undefined, memory |-> mem]
        ELSE IF /\ DOMAIN tm # {}
                /\ tokenEmail # Missing /\ tokenEmail # EmptyEmail
                /\ tokenEmail # resolvedEmail
        THEN [status |-> 403, timestamp |-> Undefined, memory |-> mem]
        ELSE IF req.budget = NullBudget
        THEN [status |-> 400, timestamp |-> Undefined, memory |-> mem]
        ELSE [status |-> 200, timestamp |-> ts,
              memory |-> save(mem, [email |-> resolvedEmail,
                                    budget |-> req.budget,
                                    updatedAt |-> ts])]

\* GET /budget/latest
getBudgetLatest(mem, email) ==
    LET record == latest(mem, IF email # Missing THEN email ELSE DEMO_EMAIL)
    IN  IF record = {}
        THEN [budget |-> NullBudget, updatedAt |-> Undefined]
        ELSE LET r == CHOOSE x \in record : TRUE
             IN  [budget |-> r.budget, updatedAt |-> r.updatedAt]

---------------------------------------------------------------------------
Init ==
    /\ store = [c \in Clients |-> initialState]
    /\ ui = [c \in Clients |-> initialPage]
    /\ syncReq = [c \in Clients |-> Idle]
    /\ fetchReq = [c \in Clients |-> Idle]
    /\ loginReqs = [c \in Clients |-> EmptyBag]
    /\ memory = <<>>
    /\ tokenMap = <<>>
    /\ now = 1
    /\ nextId = 1

\* onFieldChange(key): updateField(key, next)
OnFieldChange(c, key, next) ==
    /\ now <= MaxClock
    /\ store' = [store EXCEPT ![c] = updateField(store[c], key, next, now)]
    /\ now' = now + 1
    /\ UNCHANGED <<ui, syncReq, fetchReq, loginReqs, memory, tokenMap, nextId>>

\* the email input's onChange
SetUserEmail(c, email) ==
    /\ email # store[c].userEmail
    /\ store' = [store EXCEPT ![c] = setUserEmail(store[c], email)]
    /\ UNCHANGED <<ui, syncReq, fetchReq, loginReqs, memory, tokenMap, now, nextId>>

\* "Save snapshot": addSnapshot(), setMessage
SaveSnapshot(c, maxClock) ==
    /\ now <= maxClock
    /\ store' = [store EXCEPT ![c] = addSnapshot(store[c], nextId, now)]
    /\ nextId' = nextId + 1
    /\ now' = now + 1
    /\ ui' = [ui EXCEPT ![c].message = "Snapshot saved locally."]
    /\ UNCHANGED <<syncReq, fetchReq, loginReqs, memory, tokenMap>>

\* "Restore": restoreSnapshot(id). The clock is read only when the id is found.
RestoreSnapshot(c, id) ==
    /\ find(store[c].history, id) # {} => now <= MaxClock
    /\ store' = [store EXCEPT ![c] = restoreSnapshot(store[c], id, now)]
    /\ now' = IF find(store[c].history, id) # {} THEN now + 1 ELSE now
    /\ UNCHANGED <<ui, syncReq, fetchReq, loginReqs, memory, tokenMap, nextId>>

---------------------------------------------------------------------------
(* login *)

\* login, up to its await on fetch.
\* password is the page's password field, which only login reads: what the
\* user has typed there by the time of the click is an input of the click.
Login(c, password) ==
    /\ BagCardinality(loginReqs[c]) < MaxLogins
    /\ loginReqs' = [loginReqs EXCEPT ![c] =
            @ (+) SetToBag({[stage |-> "sent",
                             email |-> store[c].userEmail,
                             password |-> password]})]
    /\ UNCHANGED <<store, ui, syncReq, fetchReq, memory, tokenMap, now, nextId>>

\* the server handles one login request
PostAuthLogin(c) ==
    \E r \in BagToSet(loginReqs[c]) :
        /\ r.stage = "sent"
        /\ LET res == postAuthLogin(tokenMap, r, now)
           IN  /\ res.status = 200 => now <= MaxClock
               /\ tokenMap' = res.tokenMap
               /\ now' = IF res.status = 200 THEN now + 1 ELSE now
               /\ loginReqs' = [loginReqs EXCEPT ![c] =
                      (@ (-) SetToBag({r})) (+)
                      SetToBag({[stage |-> "answered", status |-> res.status,
                                 token |-> res.token]})]
        /\ UNCHANGED <<store, ui, syncReq, fetchReq, memory, nextId>>

\* login after the await: res.ok
LoginSuccess(c) ==
    \E r \in BagToSet(loginReqs[c]) :
        /\ r.stage = "answered" /\ r.status = 200
        /\ store' = [store EXCEPT ![c] = setAuthToken(store[c], r.token)]
        /\ loginReqs' = [loginReqs EXCEPT ![c] = @ (-) SetToBag({r})]
        /\ ui' = [ui EXCEPT ![c].message = "Authenticated with backend for sync."]
        /\ UNCHANGED <<syncReq, fetchReq, memory, tokenMap, now, nextId>>

\* login whose catch branch signs the user out
LoginRejected_clearsToken(c) ==
    \E r \in BagToSet(loginReqs[c]) :
        /\ r.stage = "answered" /\ r.status # 200
        /\ store' = [store EXCEPT ![c] = setAuthToken(store[c], NoToken)]
        /\ loginReqs' = [loginReqs EXCEPT ![c] = @ (-) SetToBag({r})]
        /\ UNCHANGED <<ui, syncReq, fetchReq, memory, tokenMap, now, nextId>>

\* login after the await: !res.ok
LoginRejected(c) ==
    \E r \in BagToSet(loginReqs[c]) :
        /\ r.stage = "answered" /\ r.status # 200
        /\ loginReqs' = [loginReqs EXCEPT ![c] = @ (-) SetToBag({r})]
        /\ UNCHANGED <<store, ui, syncReq, fetchReq, memory, tokenMap, now, nextId>>

\* login: fetch rejects (the request or the response is lost)
LoginNetworkError(c) ==
    \E r \in BagToSet(loginReqs[c]) :
        /\ loginReqs' = [loginReqs EXCEPT ![c] = @ (-) SetToBag({r})]
        /\ UNCHANGED <<store, ui, syncReq, fetchReq, memory, tokenMap, now, nextId>>

---------------------------------------------------------------------------
(* sync *)

\* syncToServer behind a button that is not disabled while loadingSync
SyncToServer_notDisabled(c) ==
    /\ ui' = [ui EXCEPT ![c].message = Null, ![c].loadingSync = TRUE]
    /\ store' = [store EXCEPT ![c] = setSyncStatus(store[c], "sync-pending")]
    /\ syncReq' = [syncReq EXCEPT ![c] =
            [stage |-> "sent",
             budget |-> store[c].budget,
             email |-> store[c].userEmail,
             token |-> store[c].authToken]]
    /\ UNCHANGED <<fetchReq, loginReqs, memory, tokenMap, now, nextId>>

\* syncToServer, up to its await on fetch. budget, userEmail and authToken are
\* the values of the render the handler was created in.
SyncToServer(c) ==
    /\ ~ui[c].loadingSync
    /\ ui' = [ui EXCEPT ![c].message = Null, ![c].loadingSync = TRUE]
    /\ store' = [store EXCEPT ![c] = setSyncStatus(store[c], "sync-pending")]
    /\ syncReq' = [syncReq EXCEPT ![c] =
            [stage |-> "sent",
             budget |-> store[c].budget,
             email |-> store[c].userEmail,
             token |-> store[c].authToken]]
    /\ UNCHANGED <<fetchReq, loginReqs, memory, tokenMap, now, nextId>>

\* a sync request whose body is read from the store when it is handled
PostBudgetSync_readsStore(c) ==
    /\ syncReq[c].stage = "sent"
    /\ LET res == postBudgetSync(memory, tokenMap,
                                  [syncReq[c] EXCEPT !.budget = store[c].budget], now)
       IN  /\ res.status = 200 => now <= MaxClock
           /\ memory' = res.memory
           /\ now' = IF res.status = 200 THEN now + 1 ELSE now
           /\ syncReq' = [syncReq EXCEPT ![c] =
                  [stage |-> "answered", status |-> res.status,
                   timestamp |-> res.timestamp]]
    /\ UNCHANGED <<store, ui, fetchReq, loginReqs, tokenMap, nextId>>

\* the server handles the sync request
PostBudgetSync(c) ==
    /\ syncReq[c].stage = "sent"
    /\ LET res == postBudgetSync(memory, tokenMap, syncReq[c], now)
       IN  /\ res.status = 200 => now <= MaxClock
           /\ memory' = res.memory
           /\ now' = IF res.status = 200 THEN now + 1 ELSE now
           /\ syncReq' = [syncReq EXCEPT ![c] =
                  [stage |-> "answered", status |-> res.status,
                   timestamp |-> res.timestamp]]
    /\ UNCHANGED <<store, ui, fetchReq, loginReqs, tokenMap, nextId>>

\* syncToServer after the await: res.ok
SyncSuccess(c) ==
    /\ syncReq[c].stage = "answered" /\ syncReq[c].status = 200
    /\ store' = [store EXCEPT ![c] = markSynced(store[c], syncReq[c].timestamp)]
    /\ ui' = [ui EXCEPT ![c].message = "Synced to server successfully.",
                        ![c].loadingSync = FALSE]
    /\ syncReq' = [syncReq EXCEPT ![c] = Idle]
    /\ UNCHANGED <<fetchReq, loginReqs, memory, tokenMap, now, nextId>>

\* syncToServer after the await: !res.ok, throw, catch
SyncRejected(c) ==
    /\ syncReq[c].stage = "answered" /\ syncReq[c].status # 200
    /\ store' = [store EXCEPT ![c] = setSyncStatus(store[c], "local-only")]
    /\ ui' = [ui EXCEPT ![c].message = "Sync failed", ![c].loadingSync = FALSE]
    /\ syncReq' = [syncReq EXCEPT ![c] = Idle]
    /\ UNCHANGED <<fetchReq, loginReqs, memory, tokenMap, now, nextId>>

\* syncToServer whose catch branch has no finally after it
SyncNetworkError_noFinally(c) ==
    /\ syncReq[c].stage \in {"sent", "answered"}
    /\ store' = [store EXCEPT ![c] = setSyncStatus(store[c], "local-only")]
    /\ ui' = [ui EXCEPT ![c].message = "Failed to fetch"]
    /\ syncReq' = [syncReq EXCEPT ![c] = Idle]
    /\ UNCHANGED <<fetchReq, loginReqs, memory, tokenMap, now, nextId>>

\* syncToServer: fetch rejects (the request or the response is lost), catch
SyncNetworkError(c) ==
    /\ syncReq[c].stage \in {"sent", "answered"}
    /\ store' = [store EXCEPT ![c] = setSyncStatus(store[c], "local-only")]
    /\ ui' = [ui EXCEPT ![c].message = "Failed to fetch", ![c].loadingSync = FALSE]
    /\ syncReq' = [syncReq EXCEPT ![c] = Idle]
    /\ UNCHANGED <<fetchReq, loginReqs, memory, tokenMap, now, nextId>>

---------------------------------------------------------------------------
(* pull *)

\* fetchLatest, up to its await on fetch
FetchLatest(c) ==
    /\ ~ui[c].loadingFetch
    /\ ui' = [ui EXCEPT ![c].message = Null, ![c].loadingFetch = TRUE]
    /\ fetchReq' = [fetchReq EXCEPT ![c] =
            [stage |-> "sent", email |-> store[c].userEmail]]
    /\ UNCHANGED <<store, syncReq, loginReqs, memory, tokenMap, now, nextId>>

\* the server handles the latest request
GetBudgetLatest(c) ==
    /\ fetchReq[c].stage = "sent"
    /\ LET res == getBudgetLatest(memory, fetchReq[c].email)
       IN  fetchReq' = [fetchReq EXCEPT ![c] =
               [stage |-> "answered", budget |-> res.budget,
                updatedAt |-> res.updatedAt]]
    /\ UNCHANGED <<store, ui, syncReq, loginReqs, memory, tokenMap, now, nextId>>

\* fetchLatest after the await: data.budget is set
FetchHydrate(c) ==
    /\ fetchReq[c].stage = "answered" /\ fetchReq[c].budget # NullBudget
    /\ store' = [store EXCEPT ![c] =
            hydrateFromServer(store[c], fetchReq[c].budget, fetchReq[c].updatedAt, now)]
    /\ ui' = [ui EXCEPT ![c].message = "Pulled latest server version.",
                        ![c].loadingFetch = FALSE]
    /\ fetchReq' = [fetchReq EXCEPT ![c] = Idle]
    /\ UNCHANGED <<syncReq, loginReqs, memory, tokenMap, now, nextId>>

\* fetchLatest whose else branch falls back to local-only
FetchNoCopy_resetsStatus(c) ==
    /\ fetchReq[c].stage = "answered" /\ fetchReq[c].budget = NullBudget
    /\ store' = [store EXCEPT ![c] = setSyncStatus(store[c], "local-only")]
    /\ ui' = [ui EXCEPT ![c].message = "No server copy found - still local-first.",
                        ![c].loadingFetch = FALSE]
    /\ fetchReq' = [fetchReq EXCEPT ![c] = Idle]
    /\ UNCHANGED <<syncReq, loginReqs, memory, tokenMap, now, nextId>>

\* fetchLatest after the await: data.budget is null
FetchNoCopy(c) ==
    /\ fetchReq[c].stage = "answered" /\ fetchReq[c].budget = NullBudget
    /\ ui' = [ui EXCEPT ![c].message = "No server copy found - still local-first.",
                        ![c].loadingFetch = FALSE]
    /\ fetchReq' = [fetchReq EXCEPT ![c] = Idle]
    /\ UNCHANGED <<store, syncReq, loginReqs, memory, tokenMap, now, nextId>>

\* fetchLatest: fetch rejects (the request or the response is lost), catch
FetchNetworkError(c) ==
    /\ fetchReq[c].stage \in {"sent", "answered"}
    /\ ui' = [ui EXCEPT ![c].message = "Failed to fetch", ![c].loadingFetch = FALSE]
    /\ fetchReq' = [fetchReq EXCEPT ![c] = Idle]
    /\ UNCHANGED <<store, syncReq, loginReqs, memory, tokenMap, now, nextId>>

---------------------------------------------------------------------------
Next ==
    \E c \in Clients :
        \/ \E key \in EditFields, next \in Values : OnFieldChange(c, key, next)
        \/ \E email \in Emails : SetUserEmail(c, email)
        \/ SaveSnapshot(c, MaxClock)
        \/ \E id \in 1..nextId : RestoreSnapshot(c, id)
        \/ \E password \in Passwords : Login(c, password)
        \/ PostAuthLogin(c)
        \/ LoginSuccess(c)
        \/ LoginRejected(c)
        \/ LoginNetworkError(c)
        \/ SyncToServer(c)
        \/ PostBudgetSync(c)
        \/ SyncSuccess(c)
        \/ SyncRejected(c)
        \/ SyncNetworkError(c)
        \/ FetchLatest(c)
        \/ GetBudgetLatest(c)
        \/ FetchHydrate(c)
        \/ FetchNoCopy(c)
        \/ FetchNetworkError(c)

Spec == Init /\ [][Next]_vars

\* The store with enough addSnapshot calls to pass the history's limit:
\* edits, snapshots, restores and syncs.
NextHistory ==
    \E c \in Clients :
        \/ \E key \in EditFields, next \in Values : OnFieldChange(c, key, next)
        \/ \E email \in Emails : SetUserEmail(c, email)
        \/ SaveSnapshot(c, MaxClockHist)
        \/ \E id \in 1..nextId : RestoreSnapshot(c, id)
        \/ SyncToServer(c)
        \/ PostBudgetSync(c)
        \/ SyncSuccess(c)
        \/ SyncNetworkError(c)

SpecHistory == Init /\ [][NextHistory]_vars

\* Two devices of the same user against one server. The store is persisted
\* (budgetbox-store), so a device starts with the budget it was left with.
Devices == {"d1", "d2"}

InitDevices ==
    /\ \E income \in [Devices -> Values] :
           store = [c \in Devices |-> [initialState EXCEPT !.budget.income = income[c]]]
    /\ ui = [c \in Devices |-> initialPage]
    /\ syncReq = [c \in Devices |-> Idle]
    /\ fetchReq = [c \in Devices |-> Idle]
    /\ loginReqs = [c \in Devices |-> EmptyBag]
    /\ memory = <<>>
    /\ tokenMap = <<>>
    /\ now = 1
    /\ nextId = 1

NextDevices ==
    \E c \in Devices :
        \/ \E key \in EditFields, next \in Values : OnFieldChange(c, key, next)
        \/ \E email \in Emails : SetUserEmail(c, email)
        \/ SyncToServer(c)
        \/ PostBudgetSync(c)
        \/ SyncSuccess(c)
        \/ SyncNetworkError(c)

SpecDevices == InitDevices /\ [][NextDevices]_vars

\* The derived metrics of every budget over Amounts. The store is persisted,
\* so a page starts with the budget it was left with; the number inputs pass
\* on any number typed into them, negative ones included.
InitBudget ==
    /\ \E budget \in [Fields -> Amounts] :
           store = [c \in Clients |-> [initialState EXCEPT !.budget = budget]]
    /\ ui = [c \in Clients |-> initialPage]
    /\ syncReq = [c \in Clients |-> Idle]
    /\ fetchReq = [c \in Clients |-> Idle]
    /\ loginReqs = [c \in Clients |-> EmptyBag]
    /\ memory = <<>>
    /\ tokenMap = <<>>
    /\ now = 1
    /\ nextId = 1

NextBudget ==
    \E c \in Clients :
        \E key \in Fields, next \in Amounts : OnFieldChange(c, key, next)

SpecBudget == InitBudget /\ [][NextBudget]_vars

\* The network call of a handler returns, with a response or with an error
SyncReturns(c) == SyncSuccess(c) \/ SyncRejected(c) \/ SyncNetworkError(c)
FetchReturns(c) == FetchHydrate(c) \/ FetchNoCopy(c) \/ FetchNetworkError(c)
LoginReturns(c) == LoginSuccess(c) \/ LoginRejected(c) \/ LoginNetworkError(c)

\* The full system under the assumption that every network call returns:
\* the promise of fetch settles and the handler's continuation runs.
SpecLive ==
    /\ Init /\ [][Next]_vars
    /\ \A c \in Clients :
           /\ WF_vars(SyncReturns(c))
           /\ WF_vars(FetchReturns(c))
           /\ WF_vars(LoginReturns(c))

---------------------------------------------------------------------------
(* Claims *)

\* C1: in every reachable store state, for every field and value, updateField
\* turns syncStatus synced into sync-pending, leaves local-only and
\* sync-pending as they are, gives the named field the new value and keeps
\* the other five fields.
C1_UpdateField ==
    \A c \in Clients, field \in Fields, value \in Values :
        LET before == store[c]
            after == updateField(before, field, value, now)
        IN  /\ before.syncStatus = "synced" => after.syncStatus = "sync-pending"
            /\ before.syncStatus \in {"local-only", "sync-pending"}
                   => after.syncStatus = before.syncStatus
            /\ after.budget[field] = value
            /\ \A other \in Fields \ {field} :
                   after.budget[other] = before.budget[other]

\* an edit has been made on a synced store: sync-pending with no sync in flight
C1_Witness ==
    \E c \in Clients :
        /\ store[c].syncStatus = "sync-pending"
        /\ ~ui[c].loadingSync
        /\ store[c].lastSyncedAt # Undefined
        /\ store[c].lastUpdatedAt > store[c].lastSyncedAt

\* C2: a sync attempt that fails (a non-2xx answer, or the fetch rejecting)
\* leaves syncStatus local-only in the state right after it completes,
\* whatever happened while the request was in flight.
C2_FailedSyncLocalOnly ==
    [][\A c \in Clients :
          (SyncRejected(c) \/ SyncNetworkError(c))
              => /\ store'[c].syncStatus = "local-only"
                 /\ ~ui'[c].loadingSync]_vars

\* a sync was answered non-2xx after a pull had made the store synced
C2_Witness ==
    \E c \in Clients :
        /\ ui[c].message = "Sync failed"
        /\ store[c].syncStatus = "local-only"
        /\ store[c].lastSyncedAt # Undefined
        /\ ~ui[c].loadingSync

\* C3: the click on sync sets syncStatus sync-pending at once, from any
\* status; the timestamp the server answers with is the updatedAt of the
\* record it stored; the success completion sets synced and lastSyncedAt to
\* that timestamp and leaves the budget as it is.
C3_SyncLifecycle ==
    [][\A c \in Clients :
          /\ SyncToServer(c) => store'[c].syncStatus = "sync-pending"
          /\ (PostBudgetSync(c) /\ syncReq'[c].status = 200)
                 => /\ syncReq[c].email \in DOMAIN memory'
                    /\ memory'[syncReq[c].email].updatedAt = syncReq'[c].timestamp
                    /\ memory'[syncReq[c].email].budget = syncReq[c].budget
          /\ SyncSuccess(c)
                 => /\ store'[c].syncStatus = "synced"
                    /\ store'[c].lastSyncedAt = syncReq[c].timestamp
                    /\ store'[c].lastSyncedAt # Undefined
                    /\ store'[c].budget = store[c].budget]_vars

\* a sync has succeeded: the store is synced at the updatedAt of the record
\* stored under its email
C3_Witness ==
    \E c \in Clients :
        /\ ui[c].message = "Synced to server successfully."
        /\ store[c].syncStatus = "synced"
        /\ store[c].userEmail \in DOMAIN memory
        /\ store[c].lastSyncedAt = memory[store[c].userEmail].updatedAt

\* C4: whenever a client's syncStatus is synced, its budget is the budget of
\* the server's record for its current userEmail.
C4_SyncedAligned ==
    \A c \in Clients :
        store[c].syncStatus = "synced"
            => /\ store[c].userEmail \in DOMAIN memory
               /\ memory[store[c].userEmail].budget = store[c].budget

(* The events of the SyncStatus state machine, as steps of client c *)
Edit(c) == \E key \in Fields, next \in Values : OnFieldChange(c, key, next)
SyncStart(c) == SyncToServer(c)
SyncFailure(c) == SyncRejected(c) \/ SyncNetworkError(c)
PullSuccess(c) == FetchHydrate(c)
PullFailure(c) == FetchNetworkError(c)
LoginFailure(c) == LoginRejected(c) \/ LoginNetworkError(c)
Restore(c) == \E id \in 1..nextId : RestoreSnapshot(c, id)

\* the transition table of the specification
StatedTable(c) ==
    LET from == store[c].syncStatus
        to == store'[c].syncStatus
    IN  \/ Edit(c) /\ from = "local-only" /\ to = "local-only"
        \/ SyncSuccess(c) /\ from = "local-only" /\ to = "synced"
        \/ Edit(c) /\ from = "synced" /\ to = "sync-pending"
        \/ SyncSuccess(c) /\ from = "sync-pending" /\ to = "synced"
        \/ SyncFailure(c) /\ from = "sync-pending" /\ to = "local-only"
        \/ PullSuccess(c) /\ to = "synced"

\* the transitions the code adds to it
AddedTransitions(c) ==
    LET from == store[c].syncStatus
        to == store'[c].syncStatus
    IN  \/ SyncStart(c) /\ to = "sync-pending"
        \/ Restore(c) /\ to = "local-only"
        \/ SyncFailure(c) /\ from = "synced" /\ to = "local-only"

\* C5 as stated: syncStatus starts local-only and every change of it is a
\* transition of the stated table.
C5_StatedTable ==
    /\ \A c \in Clients : store[c].syncStatus = "local-only"
    /\ [][\A c \in Clients :
             store'[c].syncStatus # store[c].syncStatus => StatedTable(c)]_vars

\* C5 as amended: syncStatus starts local-only and every change of it is a
\* transition of the stated table, or sync start to sync-pending, or the
\* restore of an existing snapshot to local-only, or a sync failure from
\* synced to local-only.
C5_AmendedTable ==
    /\ \A c \in Clients : store[c].syncStatus = "local-only"
    /\ [][\A c \in Clients :
             store'[c].syncStatus # store[c].syncStatus
                 => StatedTable(c) \/ AddedTransitions(c)]_vars

\* a sync has been started from local-only on a store that was never synced
C5_Witness ==
    \E c \in Clients :
        /\ store[c].syncStatus = "sync-pending"
        /\ ui[c].loadingSync
        /\ store[c].lastSyncedAt = Undefined
        /\ store[c].lastUpdatedAt # Undefined

\* C6: the answer to a pull is the server's record for the email, and a
\* pull that receives a budget replaces all six fields by it, sets synced
\* and lastSyncedAt to the record's updatedAt, and keeps history, userEmail
\* and authToken.
C6_PullOverwrites ==
    [][\A c \in Clients :
          /\ (GetBudgetLatest(c) /\ fetchReq[c].email \in DOMAIN memory)
                 => /\ fetchReq'[c].budget = memory[fetchReq[c].email].budget
                    /\ fetchReq'[c].updatedAt = memory[fetchReq[c].email].updatedAt
                    /\ fetchReq'[c].updatedAt # Undefined
          /\ FetchHydrate(c)
                 => /\ \A field \in Fields :
                          store'[c].budget[field] = fetchReq[c].budget[field]
                    /\ store'[c].syncStatus = "synced"
                    /\ store'[c].lastSyncedAt = fetchReq[c].updatedAt
                    /\ store'[c].history = store[c].history
                    /\ store'[c].userEmail = store[c].userEmail
                    /\ store'[c].authToken = store[c].authToken]_vars

\* a pull has completed while a sync was in flight whose request holds the
\* local budget that the pull has replaced
C6_Witness ==
    \E c \in Clients :
        /\ ui[c].message = "Pulled latest server version."
        /\ store[c].syncStatus = "synced"
        /\ syncReq[c].stage = "sent"
        /\ syncReq[c].budget # store[c].budget
        /\ store[c].lastUpdatedAt > store[c].lastSyncedAt

\* C7: the server answers a pull for an email without a record with a null
\* budget, and a pull that receives a null budget, or whose request fails,
\* leaves the whole store as it was.
C7_PullNothing ==
    [][\A c \in Clients :
          /\ (GetBudgetLatest(c) /\ fetchReq[c].email \notin DOMAIN memory)
                 => fetchReq'[c].budget = NullBudget
          /\ (FetchNoCopy(c) \/ PullFailure(c)) => store'[c] = store[c]]_vars

\* a pull has found no server copy for a store that is edited and waits for
\* the answer to a sync
C7_Witness ==
    \E c \in Clients :
        /\ ui[c].message = "No server copy found - still local-first."
        /\ store[c].syncStatus = "sync-pending"
        /\ store[c].budget # initialBudget

\* C8: a failed login, a failed sync and a failed pull leave the budget and
\* the history as they were; a failed login also leaves syncStatus and
\* authToken.
C8_FailuresKeepData ==
    [][\A c \in Clients :
          /\ (LoginFailure(c) \/ SyncFailure(c) \/ PullFailure(c))
                 => /\ store'[c].budget = store[c].budget
                    /\ store'[c].history = store[c].history
          /\ LoginFailure(c)
                 => /\ store'[c].syncStatus = store[c].syncStatus
                    /\ store'[c].authToken = store[c].authToken]_vars

\* a sync has failed on a store with an edited budget and a snapshot
C8_Witness ==
    \E c \in Clients :
        /\ ui[c].message = "Failed to fetch"
        /\ ~ui[c].loadingSync /\ ~ui[c].loadingFetch
        /\ store[c].syncStatus = "local-only"
        /\ store[c].budget # initialBudget
        /\ store[c].history # <<>>

\* the ids of the snapshots in a history
HistoryIds(history) == {history[i].id : i \in 1..Len(history)}
\* the number of addSnapshot calls so far: each call takes the next id
Captured == nextId - 1

\* C9: after n addSnapshot calls the history holds min(20, n) snapshots, the
\* most recently captured ones, most recent first; it never holds more
\* than 20.
C9_HistoryBounded ==
    \A c \in Clients :
        LET history == store[c].history
        IN  /\ Len(history) = IF Captured < 20 THEN Captured ELSE 20
            /\ Len(history) <= 20
            /\ \A i \in 1..Len(history) : history[i].id = Captured - i + 1
            /\ \A i \in 1..(Len(history) - 1) :
                   history[i].timestamp > history[i + 1].timestamp

\* 25 snapshots were added: 20 are left, the newest first, the 5 oldest gone
C9_Witness ==
    \E c \in Clients :
        /\ Captured = 25
        /\ Len(store[c].history) = 20
        /\ store[c].history[1].id = 25
        /\ store[c].history[20].id = 6
        /\ HistoryIds(store[c].history) \cap 1..5 = {}

\* C10: restoreSnapshot with an id that is not in the history, never issued
\* or evicted, returns the store as it is, and so does calling it again.
C10_RestoreMissing ==
    \A c \in Clients, id \in 0..(nextId + 1) :
        id \notin HistoryIds(store[c].history)
            => /\ restoreSnapshot(store[c], id, now) = store[c]
               /\ restoreSnapshot(restoreSnapshot(store[c], id, now), id, now + 1)
                      = store[c]

\* a synced store whose history has evicted ids, which Restore may be asked for
C10_Witness ==
    \E c \in Clients :
        /\ store[c].syncStatus = "synced"
        /\ Len(store[c].history) = HistoryLimit
        /\ 1 \notin HistoryIds(store[c].history)
        /\ \E id \in 1..nextId :
               id \notin HistoryIds(store[c].history) /\ ENABLED RestoreSnapshot(c, id)

\* C11: restoreSnapshot with an id that is in the history sets the six budget
\* fields to the snapshot's and syncStatus to local-only from every status,
\* and keeps history and lastSyncedAt.
C11_RestorePresent ==
    \A c \in Clients :
        \A i \in 1..Len(store[c].history) :
            LET snap == store[c].history[i]
                after == restoreSnapshot(store[c], snap.id, now)
            IN  /\ \A field \in Fields : after.budget[field] = snap.budget[field]
                /\ after.syncStatus = "local-only"
                /\ after.history = store[c].history
                /\ after.lastSyncedAt = store[c].lastSyncedAt

\* a snapshot has been restored while a sync was in flight: the status is
\* local-only although the request has not completed
C11_Witness ==
    \E c \in Clients :
        /\ syncReq[c].stage = "sent"
        /\ store[c].syncStatus = "local-only"
        /\ store[c].history # <<>>
        /\ store[c].budget = store[c].history[1].budget
        /\ store[c].lastUpdatedAt > store[c].history[1].timestamp

\* C12: in every step, a snapshot that stays in the history keeps its id,
\* timestamp and budget; the snapshot addSnapshot prepends has the next id
\* and the budget current at the call; restoreSnapshot of any snapshot
\* leaves the history as it is; the ids of a history are pairwise distinct.
C12_SnapshotImmutable ==
    [][\A c \in Clients :
          LET before == store[c].history
              after == store'[c].history
          IN  /\ \A i \in 1..Len(after) :
                     after[i].id \in HistoryIds(before)
                         => \E j \in 1..Len(before) : before[j] = after[i]
              /\ SaveSnapshot(c, MaxClock)
                     => /\ after[1].id = nextId
                        /\ after[1].id \notin HistoryIds(before)
                        /\ after[1].budget = store[c].budget
                        /\ SubSeq(after, 2, Len(after)) = before
              /\ \A id \in HistoryIds(before) :
                     restoreSnapshot(store[c], id, now).history = before
              /\ \A i, j \in 1..Len(after) :
                     after[i].id = after[j].id => i = j]_vars

\* a field was edited after a snapshot was taken: the snapshot still holds
\* the budget of the time of its capture
C12_Witness ==
    \E c \in Clients :
        /\ Len(store[c].history) = 1
        /\ store[c].history[1].budget = initialBudget
        /\ store[c].budget # initialBudget
        /\ store[c].lastUpdatedAt > store[c].history[1].timestamp

\* C13: an accepted sync request replaces the record of its email by its
\* budget and timestamp and leaves every other record; nothing else writes
\* a record; GET /budget/latest answers the record of the email, or a null
\* budget and null updatedAt when the email has none.
C13_OneRecordPerEmail ==
    [][/\ \A c \in Devices :
             PostBudgetSync(c) /\ syncReq'[c].status = 200
                 => /\ DOMAIN memory' = DOMAIN memory \cup {syncReq[c].email}
                    /\ memory'[syncReq[c].email] =
                           [email |-> syncReq[c].email,
                            budget |-> syncReq[c].budget,
                            updatedAt |-> syncReq'[c].timestamp]
                    /\ \A e \in DOMAIN memory \ {syncReq[c].email} :
                           memory'[e] = memory[e]
       /\ (\A c \in Devices : ~(PostBudgetSync(c) /\ syncReq'[c].status = 200))
              => memory' = memory
       /\ \A e \in Emails :
              getBudgetLatest(memory', e) =
                  IF e \in DOMAIN memory'
                  THEN [budget |-> memory'[e].budget, updatedAt |-> memory'[e].updatedAt]
                  ELSE [budget |-> NullBudget, updatedAt |-> Undefined]]_vars

\* the server holds two records with different budgets, one per email, the
\* older one untouched by the later sync for the other email
C13_Witness ==
    /\ DOMAIN memory = {DEMO_EMAIL, OtherEmail}
    /\ memory[DEMO_EMAIL].budget # memory[OtherEmail].budget
    /\ memory[DEMO_EMAIL].updatedAt # memory[OtherEmail].updatedAt
    /\ getBudgetLatest(memory, DEMO_EMAIL).budget = memory[DEMO_EMAIL].budget

\* a bearer token the server has not issued
ForgedToken == <<"forged", 0>>
\* the sync requests any HTTP client can send to the server in this state
SyncRequests ==
    [email : Emails \cup {Missing, EmptyEmail},
     budget : {NullBudget} \cup {store[c].budget : c \in Clients},
     token : {NoToken, ForgedToken} \cup DOMAIN tokenMap]

\* C14 as stated: a sync request without email, or without budget, is
\* answered 400 and stores nothing, with or without a bearer token.
C14_MissingIs400 ==
    \A req \in SyncRequests :
        req.email = Missing \/ req.budget = NullBudget
            => LET res == postBudgetSync(memory, tokenMap, req, now)
               IN  res.status = 400 /\ res.memory = memory

\* C14 as amended: a request without email is answered 400 unless its token
\* is one the server issued, and then it is handled as a request for the
\* token's email (200 and stored with a budget, 400 without); an empty
\* email is answered 400; a request with an email and without budget is
\* answered 403 when its token is mapped to another email and 400
\* otherwise; no request answered 400 or 403 stores anything.
C14_MissingEmailOrBudget ==
    \A req \in SyncRequests :
        LET res == postBudgetSync(memory, tokenMap, req, now)
            known == req.token \in DOMAIN tokenMap
        IN  /\ req.email = Missing /\ ~known => res.status = 400
            /\ req.email = Missing /\ known /\ req.budget = NullBudget
                   => res.status = 400
            /\ req.email = Missing /\ known /\ req.budget # NullBudget
                   => /\ res.status = 200
                      /\ res.memory[tokenMap[req.token]].budget = req.budget
            /\ req.email = EmptyEmail => res.status = 400
            /\ req.email \in Emails /\ req.budget = NullBudget
                   => res.status = IF known /\ tokenMap[req.token] # req.email
                                   THEN 403 ELSE 400
            /\ res.status # 200 => res.memory = memory

\* the server has issued a token, and a request that carries it with a
\* budget and without email is stored under the token's email
C14_Witness ==
    /\ tokenMap # <<>>
    /\ \E req \in SyncRequests :
           /\ req.email = Missing
           /\ req.budget # initialBudget
           /\ postBudgetSync(memory, tokenMap, req, now).status = 200
           /\ postBudgetSync(memory, tokenMap, req, now).memory # memory

\* C15: a sync request with an email and a budget is answered 403, and
\* stores nothing, exactly when its token is one the server issued for a
\* different email; with no token, a forged token or a token of the same
\* email it is answered 200 and its budget becomes the record of its email.
C15_TokenMismatch ==
    \A req \in SyncRequests :
        req.email \in Emails /\ req.budget # NullBudget
            => LET res == postBudgetSync(memory, tokenMap, req, now)
                   mismatch == /\ req.token \in DOMAIN tokenMap
                               /\ tokenMap[req.token] # req.email
               IN  IF mismatch
                   THEN res.status = 403 /\ res.memory = memory
                   ELSE /\ res.status = 200
                        /\ res.memory[req.email] =
                               [email |-> req.email, budget |-> req.budget,
                                updatedAt |-> now]
                        /\ \A e \in DOMAIN memory \ {req.email} :
                               res.memory[e] = memory[e]

\* a client that logged in as the demo user and then changed its email has
\* had its sync answered 403, and the server holds no record for that email
C15_Witness ==
    \E c \in Clients :
        /\ syncReq[c].stage = "answered"
        /\ syncReq[c].status = 403
        /\ store[c].authToken \in DOMAIN tokenMap
        /\ OtherEmail \notin DOMAIN memory

WrongPassword == "hireme"
\* the login bodies any HTTP client can send
LoginBodies ==
    [email : Emails \cup {Missing, EmptyEmail},
     password : {DEMO_PASSWORD, WrongPassword, Missing}]

\* C16: POST /auth/login answers 200, with a token it maps to the email,
\* exactly when email and password are the demo pair, and 401 with the
\* token map as it was otherwise; no step removes or remaps a token.
C16_Login ==
    /\ [](\A body \in LoginBodies :
            LET res == postAuthLogin(tokenMap, body, now)
            IN  IF body.email = DEMO_EMAIL /\ body.password = DEMO_PASSWORD
                THEN /\ res.status = 200
                     /\ res.token # NoToken
                     /\ res.token \in DOMAIN res.tokenMap
                     /\ res.tokenMap[res.token] = body.email
                     /\ \A t \in DOMAIN tokenMap : res.tokenMap[t] = tokenMap[t]
                ELSE /\ res.status = 401
                     /\ res.token = NoToken
                     /\ res.tokenMap = tokenMap)
    /\ [][\A t \in DOMAIN tokenMap :
             t \in DOMAIN tokenMap' /\ tokenMap'[t] = tokenMap[t]]_vars

\* a login was accepted, and a later one, for another email, has been
\* answered 401: the token of the first is still mapped to the demo email
C16_Witness ==
    \E c \in Clients :
        /\ store[c].authToken \in DOMAIN tokenMap
        /\ tokenMap[store[c].authToken] = DEMO_EMAIL
        /\ \E r \in BagToSet(loginReqs[c]) : r.stage = "answered" /\ r.status = 401

\* q = r as numbers
SameNumber(q, r) == q.num * r.den = r.num * q.den

\* C17: for every budget, getTotals returns expenses as the sum of the five
\* expense fields, savings = income - expenses, monthEndPrediction =
\* savings, and burnRate = expenses / income if income > 0, else 0.
C17_Totals ==
    \A c \in Clients :
        LET budget == store[c].budget
            totals == getTotals(budget)
            expenses == budget.monthlyBills + budget.food + budget.transport
                            + budget.subscriptions + budget.miscellaneous
        IN  /\ totals.expenses = expenses
            /\ totals.savings = budget.income - expenses
            /\ totals.monthEndPrediction = totals.savings
            /\ SameNumber(totals.burnRate,
                          IF budget.income > 0 THEN Quotient(expenses, budget.income)
                          ELSE Quotient(0, 1))

WarningKinds == {FoodWarning, SubscriptionsWarning, OverspendWarning, BurnRateWarning}
\* the warnings of a budget, as a set
Fired(budget) == {getWarnings(budget)[i] : i \in 1..Len(getWarnings(budget))}
\* the list of all four warnings without those that are not in the set
InOrder(set) ==
    LET push(warning) == IF warning \in set THEN <<warning>> ELSE <<>>
    IN  push(FoodWarning) \o push(SubscriptionsWarning)
        \o push(OverspendWarning) \o push(BurnRateWarning)
\* the subsets that fire together: with a positive income any choice of the
\* ratio warnings, with overspend and burn rate both or neither; otherwise
\* overspend alone, burn rate alone, or nothing
FiringSubsets ==
    {ratio \cup both : ratio \in SUBSET {FoodWarning, SubscriptionsWarning},
                       both \in {{}, {OverspendWarning, BurnRateWarning}}}
        \cup {{OverspendWarning}, {BurnRateWarning}}

\* C18 as stated: each warning fires on its own condition, in the fixed
\* order, and each of the 16 subsets of the four warnings is what fires for
\* some budget.
C18_AnySubset ==
    /\ \A c \in Clients :
           getWarnings(store[c].budget) = InOrder(Fired(store[c].budget))
    /\ \A set \in SUBSET WarningKinds :
           \E budget \in [Fields -> Amounts] : Fired(budget) = set

\* each of the ten subsets of FiringSubsets is what fires for some budget
EachFiringSubsetFires ==
    \A set \in FiringSubsets :
        \E budget \in [Fields -> Amounts] : Fired(budget) = set

\* C18 as amended: each warning fires on its own condition, in the fixed
\* order; with a positive income overspend and burn rate fire together or
\* not at all, without it no ratio warning fires and overspend and burn
\* rate never fire together; 10 of the 16 subsets fire for some budget.
C18_Warnings ==
    /\ \A c \in Clients :
           LET budget == store[c].budget
               totals == getTotals(budget)
               fired == Fired(budget)
           IN  /\ getWarnings(budget) = InOrder(fired)
               /\ FoodWarning \in fired
                      <=> budget.income > 0 /\ 5 * budget.food > 2 * budget.income
               /\ SubscriptionsWarning \in fired
                      <=> budget.income > 0
                          /\ 10 * budget.subscriptions > 3 * budget.income
               /\ OverspendWarning \in fired <=> totals.savings < 0
               /\ BurnRateWarning \in fired <=> GreaterThan(totals.burnRate, 1, 1)
               /\ budget.income > 0
                      => (OverspendWarning \in fired <=> BurnRateWarning \in fired)
               /\ budget.income <= 0
                      => /\ FoodWarning \notin fired
                         /\ SubscriptionsWarning \notin fired
                         /\ ~(OverspendWarning \in fired /\ BurnRateWarning \in fired)
               /\ fired \in FiringSubsets
    /\ EachFiringSubsetFires

\* a budget edited into one whose four warnings all fire, in the fixed order
C18_Witness ==
    \E c \in Clients :
        /\ store[c].lastUpdatedAt # Undefined
        /\ getWarnings(store[c].budget) =
               <<FoodWarning, SubscriptionsWarning, OverspendWarning, BurnRateWarning>>

\* C19: an edit is enabled in every state, also with a sync in flight (up to
\* the clock bound of the model); the request of a sync holds the budget of
\* the moment of the click, an edit changes neither the request nor the
\* server's records, and what the server stores is the request's budget.
C19_EditDuringSync ==
    /\ [](\A c \in Clients, key \in Fields, next \in Values :
            now <= MaxClock => ENABLED OnFieldChange(c, key, next))
    /\ [][\A c \in Clients :
             /\ SyncToServer(c) => syncReq'[c].budget = store[c].budget
             /\ (\E key \in Fields, next \in Values : OnFieldChange(c, key, next))
                    => syncReq' = syncReq /\ memory' = memory
             /\ PostBudgetSync(c) /\ syncReq'[c].status = 200
                    => memory'[syncReq[c].email].budget = syncReq[c].budget
             /\ memory' # memory => PostBudgetSync(c)]_vars

\* a field was edited while the sync was in flight: the server has stored
\* the budget of the click, without the edit
C19_Witness ==
    \E c \in Clients :
        /\ ui[c].loadingSync
        /\ syncReq[c].stage = "answered" /\ syncReq[c].status = 200
        /\ store[c].userEmail \in DOMAIN memory
        /\ memory[store[c].userEmail].budget # store[c].budget
        /\ memory[store[c].userEmail].updatedAt > store[c].lastUpdatedAt
        /\ store[c].lastUpdatedAt # Undefined

\* C20: the sync requests of two devices for one email are both answered
\* 200, each overwriting the record with its budget, so that the record is
\* the budget of the request handled last; each device's completion sets
\* synced and reports success.
C20_LastWriteWins ==
    [][\A c \in Devices :
          /\ PostBudgetSync(c)
                 => /\ syncReq'[c].status = 200
                    /\ memory'[syncReq[c].email].budget = syncReq[c].budget
                    /\ memory'[syncReq[c].email].updatedAt = syncReq'[c].timestamp
          /\ SyncSuccess(c)
                 => /\ store'[c].syncStatus = "synced"
                    /\ ui'[c].message = "Synced to server successfully."
                    /\ memory' = memory]_vars

\* two devices with different budgets have synced for the same email with
\* both requests in flight at once: both are synced, the record is the
\* budget of the later request, and the other device's budget is gone
C20_Witness ==
    \E c, d \in Devices :
        /\ c # d
        /\ store[c].userEmail = store[d].userEmail
        /\ store[c].budget # store[d].budget
        /\ store[c].syncStatus = "synced" /\ store[d].syncStatus = "synced"
        /\ ui[c].message = "Synced to server successfully."
        /\ ui[d].message = "Synced to server successfully."
        /\ store[c].lastUpdatedAt = Undefined /\ store[d].lastUpdatedAt = Undefined
        /\ store[c].lastSyncedAt < store[d].lastSyncedAt
        /\ memory[store[d].userEmail].budget = store[d].budget
        /\ memory[store[d].userEmail].updatedAt = store[d].lastSyncedAt

\* C21: when network calls return, a started sync eventually clears
\* loadingSync and a new sync can then be started, a started pull
\* eventually clears loadingFetch, and of the logins in flight one
\* eventually completes; a request is sent by the click only, never again
\* by a completion.
C21_Completes ==
    /\ \A c \in Clients :
           /\ ui[c].loadingSync ~> ~ui[c].loadingSync
           /\ ui[c].loadingFetch ~> ~ui[c].loadingFetch
           /\ (BagCardinality(loginReqs[c]) = MaxLogins)
                  ~> (BagCardinality(loginReqs[c]) < MaxLogins)
    /\ [](\A c \in Clients :
            /\ ~ui[c].loadingSync => ENABLED SyncToServer(c)
            /\ ui[c].loadingSync <=> syncReq[c].stage # "idle"
            /\ ui[c].loadingFetch <=> fetchReq[c].stage # "idle")
    /\ [][\A c \in Clients :
             /\ syncReq'[c] # syncReq[c] /\ syncReq'[c].stage = "sent"
                    => SyncToServer(c)
             /\ fetchReq'[c] # fetchReq[c] /\ fetchReq'[c].stage = "sent"
                    => FetchLatest(c)
             /\ SyncReturns(c) => syncReq'[c] = Idle
             /\ FetchReturns(c) => fetchReq'[c] = Idle
             /\ BagCardinality(loginReqs'[c]) > BagCardinality(loginReqs[c])
                    => \E password \in Passwords : Login(c, password)]_vars

\* a sync has been handled by the server and has completed, and the next
\* sync has been started
C21_Witness ==
    \E c \in Clients :
        /\ memory # <<>>
        /\ syncReq[c].stage = "sent"
        /\ ui[c].loadingSync

SyncInFlight(c) == syncReq[c].stage # "idle"
FetchInFlight(c) == fetchReq[c].stage # "idle"

\* C22: while a sync is in flight the sync action is disabled, and a sync
\* starts only with none in flight; a pull can start while a sync is in
\* flight and a sync while a pull is; with both in flight either can
\* complete first, and the completion of one leaves the other in flight.
C22_OneSyncInFlight ==
    /\ [](\A c \in Clients :
            /\ SyncInFlight(c) => ~ENABLED SyncToServer(c)
            /\ SyncInFlight(c) /\ ~FetchInFlight(c) => ENABLED FetchLatest(c)
            /\ FetchInFlight(c) /\ ~SyncInFlight(c) => ENABLED SyncToServer(c)
            /\ SyncInFlight(c) /\ FetchInFlight(c)
                   => ENABLED SyncReturns(c) /\ ENABLED FetchReturns(c))
    /\ [][\A c \in Clients :
             /\ SyncToServer(c) => ~SyncInFlight(c)
             /\ SyncReturns(c) => fetchReq' = fetchReq
             /\ FetchReturns(c) => syncReq' = syncReq]_vars

\* a pull was started while a sync was in flight and has completed first:
\* the sync, answered by the server, is still in flight
C22_Witness ==
    \E c \in Clients :
        /\ syncReq[c].stage = "answered"
        /\ ~FetchInFlight(c)
        /\ ui[c].message = "Pulled latest server version."
        /\ store[c].syncStatus = "synced"

\* C23: for a budget of six non-negative fields, the burn-rate warning fires
\* only with the overspend warning, and the overspend warning fires without
\* the burn-rate warning exactly when income = 0 and expenses > 0.
C23_BurnImpliesOverspend ==
    \A c \in Clients :
        LET budget == store[c].budget
            fired == Fired(budget)
        IN  (\A field \in Fields : budget[field] >= 0)
                => /\ BurnRateWarning \in fired => OverspendWarning \in fired
                   /\ (OverspendWarning \in fired /\ BurnRateWarning \notin fired)
                          <=> (budget.income = 0 /\ getTotals(budget).expenses > 0)

\* a non-negative budget edited to income 0 with expenses: overspend alone
C23_Witness ==
    \E c \in Clients :
        /\ \A field \in Fields : store[c].budget[field] >= 0
        /\ store[c].lastUpdatedAt # Undefined
        /\ store[c].budget.income = 0
        /\ getTotals(store[c].budget).expenses > 0
        /\ getWarnings(store[c].budget) = <<OverspendWarning>>

\* C24: a synced store has lastSyncedAt set, and lastSyncedAt changes only
\* in the completion of a successful sync or of a pull that received a
\* budget.
C24_SyncedIsStamped ==
    /\ [](\A c \in Clients :
            store[c].syncStatus = "synced" => store[c].lastSyncedAt # Undefined)
    /\ [][\A c \in Clients :
             store'[c].lastSyncedAt # store[c].lastSyncedAt
                 => SyncSuccess(c) \/ FetchHydrate(c)]_vars

\* a client has pulled the only record the server holds: synced, stamped
\* with the record's timestamp
C24_Witness ==
    \E c \in Clients :
        /\ store[c].syncStatus = "synced"
        /\ ui[c].message = "Pulled latest server version."
        /\ ~SyncInFlight(c)
        /\ store[c].userEmail \in DOMAIN memory
        /\ store[c].lastSyncedAt = memory[store[c].userEmail].updatedAt
        /\ \A e \in DOMAIN memory : memory[e].updatedAt = store[c].lastSyncedAt

\* the statuses and tokens the store's setters are called with
Statuses == {"local-only", "sync-pending", "synced"}
Tokens == {NoToken, ForgedToken} \cup DOMAIN tokenMap

\* C25: addSnapshot, setSyncStatus, markSynced, setUserEmail and
\* setAuthToken leave the six budget fields, and addSnapshot, setUserEmail
\* and setAuthToken leave syncStatus as well; in the running system the
\* budget changes only in an edit, in a pull that received a budget, and in
\* the restore of a snapshot that is in the history.
C25_BudgetFrame ==
    /\ [](\A c \in Clients :
            LET state == store[c]
            IN  /\ addSnapshot(state, nextId, now).budget = state.budget
                /\ addSnapshot(state, nextId, now).syncStatus = state.syncStatus
                /\ \A status \in Statuses :
                       setSyncStatus(state, status).budget = state.budget
                /\ markSynced(state, now).budget = state.budget
                /\ \A email \in Emails \cup {EmptyEmail} :
                       /\ setUserEmail(state, email).budget = state.budget
                       /\ setUserEmail(state, email).syncStatus = state.syncStatus
                /\ \A token \in Tokens :
                       /\ setAuthToken(state, token).budget = state.budget
                       /\ setAuthToken(state, token).syncStatus = state.syncStatus)
    /\ [][\A c \in Clients :
             store'[c].budget # store[c].budget
                 => \/ \E key \in Fields, next \in Values : OnFieldChange(c, key, next)
                    \/ FetchHydrate(c)
                    \/ \E id \in HistoryIds(store[c].history) :
                           RestoreSnapshot(c, id)]_vars

\* the email was changed while synced: the status is still synced, for an
\* email the server has no record of
C25_Witness ==
    \E c \in Clients :
        /\ store[c].syncStatus = "synced"
        /\ store[c].userEmail = OtherEmail
        /\ OtherEmail \notin DOMAIN memory
        /\ ~SyncInFlight(c) /\ ~FetchInFlight(c)
====
